---- MODULE Spec2Model ----
(***************************************************************************)
(* Render loop of vulkano-start (src/src/main.rs): the winit event-loop    *)
(* closure with its captured state, the frame-target builder                *)
(* (src/src/win_utils.rs) and the chain created by the initializer         *)
(* (src/src/vulk_utils.rs).  One action is one invocation of the closure   *)
(* with one event; the results of the platform calls made by the closure   *)
(* are inputs of the action.                                                *)
(***************************************************************************)
EXTENDS Integers, Sequences, FiniteSets, TLC

\* ------------------------------------------------------------------ bounds
MaxGen == 2          \* chain generations created by recreate_with_dimensions
MaxFrames == 2       \* fence futures returned by a successful flush
MaxWidth == 2        \* window widths the platform reports
MaxImages == 2       \* largest minimum image count of the surface
TimeRes == 5         \* clock readings per second (resolution of the f64 value)
MaxElapsed == 72     \* largest clock reading, in units of 1/TimeRes second

WindowSizes == {<<w, 1>> : w \in 1..MaxWidth}
ImageCounts == 2..MaxImages
Formats == {"B8G8R8A8Unorm"}

VARIABLES
    control_flow,        \* *control_flow of the closure: "Poll" or "Exit"
    panicked,            \* the process was aborted by panic! or unwrap()
    swapchain,           \* the presentation chain the loop holds
    framebuffers,        \* the frame targets the loop holds
    dynamic_state,       \* DynamicState: the viewport
    recreate_swapchain,  \* the resize flag
    previous_frame_end,  \* Option<Box<dyn GpuFuture>>: the in-flight marker
    finished,            \* frames whose fence cleanup_finished found signaled
    frames,              \* number of fence futures created so far
    tick,                \* the event of the last closure call and the results
                         \* the platform gave it
    ops,                 \* the calls made by the last closure call, in order
    waits,               \* what the last then_execute was sequenced after
    held,                \* the markers the closure owned when the last
                         \* then_signal_fence_and_flush returned
    elapsed,             \* the clock reading of the last geometry computed
    data                 \* the three vertices computed from it

vars == <<control_flow, panicked, swapchain, framebuffers, dynamic_state,
          recreate_swapchain, previous_frame_end, finished, frames,
          tick, ops, waits, held, elapsed, data>>

\* The state of the loop without the geometry of the last frame.
loop_vars == <<control_flow, panicked, swapchain, framebuffers, dynamic_state,
               recreate_swapchain, previous_frame_end, finished, frames,
               tick, ops, waits, held>>

\* ------------------------------------------------------------------ values
\* Option<marker>: None, or Some(marker); a marker is sync::now (kind "now")
\* or the fence future of frame `frame` (kind "fence").
None == [some |-> FALSE, kind |-> "none", frame |-> 0]
Some(m) == [some |-> TRUE, kind |-> m.kind, frame |-> m.frame]
SyncNow == [kind |-> "now", frame |-> 0]
FenceSignalFuture(n) == [kind |-> "fence", frame |-> n]
AcquireFuture == [kind |-> "acquire", frame |-> 0]
Unwrap(opt) == [kind |-> opt.kind, frame |-> opt.frame]

\* A marker is uncompleted while it is a fence the loop has not found signaled.
Uncompleted(opt, fin) == opt.some /\ opt.kind = "fence" /\ opt.frame \notin fin

\* Swapchain::new in init_vlk: the first chain, generation 0.
SwapchainNew(n, format, dimensions) ==
    [gen |-> 0, dimensions |-> dimensions, num_images |-> n, format |-> format]

\* Variant: the recreation hands back the chain it was called on.
RecreateKeepsChain(sc, dimensions) == sc
\* Variant: the new chain asks for one image more than the old one had.
RecreateWithOneMoreImage(sc, dimensions) ==
    [gen |-> sc.gen + 1, dimensions |-> dimensions,
     num_images |-> sc.num_images + 1, format |-> sc.format]
\* swapchain.recreate_with_dimensions(dimensions), Ok case: a new chain with
\* the image count and format of the old one at the given dimensions.
RecreateWithDimensions(sc, dimensions) ==
    [gen |-> sc.gen + 1, dimensions |-> dimensions,
     num_images |-> sc.num_images, format |-> sc.format]

\* The images that come with a chain.
Images(sc) ==
    [i \in 1..sc.num_images |->
        [gen |-> sc.gen, index |-> i - 1, dimensions |-> sc.dimensions,
         format |-> sc.format]]

\* window_size_dependent_setup: the viewport from images[0], and one
\* framebuffer per image.
Viewport(images) ==
    [origin |-> <<0, 0>>, dimensions |-> images[1].dimensions,
     depth_range |-> <<0, 1>>]
\* Variant: a framebuffer for the first image only.
SetupFirstImageOnly(images) ==
    [i \in 1..1 |-> [view |-> images[i]]]
WindowSizeDependentSetup(images) ==
    [i \in 1..Len(images) |-> [view |-> images[i]]]

\* previous_frame_end.as_mut().unwrap().cleanup_finished(): a non-blocking
\* look at the fence; fence_ready is what the platform answers.
CleanupFinished(opt, fin, fence_ready) ==
    IF opt.kind = "fence" /\ fence_ready THEN fin \cup {opt.frame} ELSE fin

\* Variant: the marker is looked at instead of taken; the slot keeps it.
TakeKeeps(opt) == opt
\* previous_frame_end.take(): the slot is left None.
Take(opt) == None

\* The markers an Option slot owns.
Markers(opt) == IF opt.some THEN {Unwrap(opt)} ELSE {}

\* Variant: the command buffer is executed after the acquisition alone.
ExecuteAfterAcquireOnly(prev, acquire_future) == {acquire_future}
\* .join(acquire_future).then_execute(..): what the command buffer waits for.
JoinThenExecute(prev, acquire_future) == {prev, acquire_future}

\* No chain: what a tick that replaced no chain records as replaced.
NoChain == [gen |-> -1, dimensions |-> <<0, 0>>, num_images |-> 0, format |-> "-"]

\* No frame target: what a tick that began no render pass records as target.
NoTarget == [view |-> [gen |-> -1, index |-> -1, dimensions |-> <<0, 0>>, format |-> "-"]]

NoTick == [event |-> "-", recreate |-> "-", replaced |-> NoChain, setup |-> "-",
           acquire |-> "-", suboptimal |-> FALSE, image_num |-> -1,
           target |-> NoTarget, record |-> "-", execute |-> "-", flush |-> "-"]

Running == control_flow = "Poll" /\ ~panicked

\* ------------------------------------------------------------------ Init
\* The state when event_loop.run is entered (main.rs lines 41-93).
Init ==
    \E n \in ImageCounts, f \in Formats, d \in WindowSizes :
        /\ control_flow = "Poll"
        /\ panicked = FALSE
        /\ swapchain = SwapchainNew(n, f, d)
        /\ framebuffers = WindowSizeDependentSetup(Images(SwapchainNew(n, f, d)))
        /\ dynamic_state = [viewports |-> <<Viewport(Images(SwapchainNew(n, f, d)))>>]
        /\ recreate_swapchain = FALSE
        /\ previous_frame_end = Some(SyncNow)
        /\ finished = {}
        /\ frames = 0
        /\ tick = NoTick
        /\ ops = <<>>
        /\ waits = {}
        /\ held = {}
        /\ elapsed = 0
        /\ data = <<>>

\* ------------------------------------------------------------------ events
\* Event::WindowEvent { event: WindowEvent::CloseRequested, .. }
CloseRequested ==
    /\ Running
    /\ control_flow' = "Exit"
    /\ tick' = [NoTick EXCEPT !.event = "CloseRequested"]
    /\ ops' = <<>>
    /\ waits' = {}
    /\ held' = {}
    /\ UNCHANGED <<elapsed, data, panicked, swapchain, framebuffers, dynamic_state,
                   recreate_swapchain, previous_frame_end, finished, frames>>

\* Variant: the resize arm also drops the in-flight marker for a fresh one.
ResizedResetsMarker ==
    /\ Running
    /\ recreate_swapchain' = TRUE
    /\ previous_frame_end' = Some(SyncNow)
    /\ tick' = [NoTick EXCEPT !.event = "Resized"]
    /\ ops' = <<>>
    /\ waits' = {}
    /\ held' = {}
    /\ UNCHANGED <<elapsed, data, control_flow, panicked, swapchain, framebuffers,
                   dynamic_state, finished, frames>>

\* Event::WindowEvent { event: WindowEvent::Resized(_), .. }
Resized ==
    /\ Running
    /\ recreate_swapchain' = TRUE
    /\ tick' = [NoTick EXCEPT !.event = "Resized"]
    /\ ops' = <<>>
    /\ waits' = {}
    /\ held' = {}
    /\ UNCHANGED <<elapsed, data, control_flow, panicked, swapchain, framebuffers,
                   dynamic_state, previous_frame_end, finished, frames>>

\* _ => ()
OtherEvent ==
    /\ Running
    /\ tick' = [NoTick EXCEPT !.event = "Other"]
    /\ ops' = <<>>
    /\ waits' = {}
    /\ held' = {}
    /\ UNCHANGED <<elapsed, data, control_flow, panicked, swapchain, framebuffers,
                   dynamic_state, recreate_swapchain, previous_frame_end,
                   finished, frames>>

\* ------------------------------------------------------------------ geometry
\* Numbers.  A clock reading (f64 seconds) is an integer count of 1/TimeRes
\* second.  An f32 between 0 and 1 is a multiple of 1/F32Den, and `as f32`
\* rounds to the nearest one, ties to even.  Angles are counted in units of
\* pi/6, so PI is 6.  A coordinate is a pair <<a, b>> that stands for
\* (a + b*sqrt(3))/4, which is exact for the cosines of multiples of pi/6.
DURATION == 5
PI == 6
F32Den == 12
RADIUS == [num |-> 1, den |-> 2]
RoundHalfEven(n, d) ==
    LET q == n \div d
        r == n % d
    IN IF 2 * r < d THEN q
       ELSE IF 2 * r > d THEN q + 1
       ELSE IF q % 2 = 0 THEN q ELSE q + 1

\* elapsed.rem_euclid(DURATION): the non-negative remainder.
RemEuclid(x, duration) == x % (duration * TimeRes)
\* Variant: the phase runs down from 1 to 0, a clockwise rotation.
DeltaReversed(remainder) ==
    RoundHalfEven((DURATION * TimeRes - remainder) * F32Den, DURATION * TimeRes)
\* (remainder / DURATION) as f32, in units of 1/F32Den.
Delta(remainder) == RoundHalfEven(remainder * F32Den, DURATION * TimeRes)
\* Variant: the factor 2.0 is forgotten.
AngleHalfTurn(delta) == RoundHalfEven(delta * PI, F32Den)
\* delta * PI * 2.0, in units of pi/6.
Angle(delta) == RoundHalfEven(delta * PI * 2, F32Den)
\* Variant: a quarter turn between the vertices.
ANGLE_OFFSET_Quarter == (PI * 2) \div 4
\* (PI * 2.0) / 3.0
ANGLE_OFFSET == (PI * 2) \div 3

\* f32::cos and f32::sin at a multiple of pi/6, of any sign.
CosTable ==
    <<  <<4, 0>>, <<0, 2>>, <<2, 0>>, <<0, 0>>, <<-2, 0>>, <<0, -2>>,
        <<-4, 0>>, <<0, -2>>, <<-2, 0>>, <<0, 0>>, <<2, 0>>, <<0, 2>>  >>
Cos(a) == CosTable[(a % (2 * PI)) + 1]
Sin(a) == Cos(a - (PI \div 2))
\* x * RADIUS
TimesRadius(x) ==
    <<(x[1] * RADIUS.num) \div RADIUS.den, (x[2] * RADIUS.num) \div RADIUS.den>>
Vertex(a) == [position |-> <<TimesRadius(Cos(a)), TimesRadius(Sin(a))>>]

\* main.rs lines 147-175: the three vertices for the clock reading t.
AngleAt(t) == Angle(Delta(RemEuclid(t, DURATION)))
Triangle(t) ==
    LET angle == AngleAt(t)
    IN << Vertex(angle), Vertex(angle + ANGLE_OFFSET),
          Vertex(angle - ANGLE_OFFSET) >>

Times == 0..MaxElapsed
\* The clock reading drawn by the ticks of the loop, and its triangle.
TickTimes == {MaxElapsed}
TickTriangle == [t \in TickTimes |-> Triangle(t)]

\* ------------------------------------------------------------------ redraw
\* The calls of the stages of a redraw tick, as they appear in `ops`.
CleanupOps == <<"cleanup_finished">>
RecreateOps == <<"recreate_with_dimensions">>
SetupOps == <<"window_size_dependent_setup">>
AcquireOps == <<"acquire_next_image">>
RecordOps == <<"chunk", "begin_render_pass", "draw", "end_render_pass", "build">>
\* Variant: the present is chained before the command buffer is executed.
PresentBeforeExecute == <<"take", "join", "then_swapchain_present", "then_execute">>
SubmitOps == <<"take", "join", "then_execute">>
PresentOps == <<"then_swapchain_present">>
FlushOps == <<"then_signal_fence_and_flush">>

RecreateResults == {"Ok", "UnsupportedDimensions", "Other"}
AcquireResults == {"Ok", "OutOfDate", "Other"}
FlushResults == {"Ok", "OutOfDate", "Other"}
SetupResults == {"Ok", "Err"}

\* The values the closure leaves behind when it returns or panics.
Commit(sc, fb, ds, flag, pfe, fr, pan, t, o, w, h, geo) ==
    /\ swapchain' = sc
    /\ framebuffers' = fb
    /\ dynamic_state' = ds
    /\ recreate_swapchain' = flag
    /\ previous_frame_end' = pfe
    /\ frames' = fr
    /\ panicked' = pan
    /\ tick' = t
    /\ ops' = o
    /\ waits' = w
    /\ held' = h
    /\ elapsed' = geo[1]
    /\ data' = geo[2]
    /\ UNCHANGED control_flow

\* Variants of the arms of `match future`: the flush result is unwrapped; the
\* out-of-date arm forgets the flag; the last arm forgets to store a marker.
FlushUnwrapPanics(fl) == fl # "Ok"
FlushFlagForgotten(fl, flag) == flag
FlushMarkerForgotten(fl, n) ==
    IF fl = "Ok" THEN Some(FenceSignalFuture(n))
    ELSE IF fl = "OutOfDate" THEN Some(SyncNow) ELSE None
\* Variant: only the Ok arm stores a marker.
FlushMarkerOnlyOnOk(fl, n) ==
    IF fl = "Ok" THEN Some(FenceSignalFuture(n)) ELSE None
\* Variants of the acquire arms: out-of-date does not set the flag; the
\* sub-optimal mark is ignored.
AcquireFlagForgotten(acq, flag) == flag
SuboptimalIgnored(suboptimal, flag) == flag
\* The arms of `match future` (main.rs lines 207-219): the marker stored and
\* the resize flag after the fence-and-flush answered fl.
FlushMarker(fl, n) ==
    IF fl = "Ok" THEN Some(FenceSignalFuture(n)) ELSE Some(SyncNow)
FlushFlag(fl, flag) == IF fl = "OutOfDate" THEN TRUE ELSE flag
\* Whether an arm of `match future` aborts the process: none does.
FlushPanics(fl) == FALSE
\* The calls of the arm: the last one prints the error.
FlushArmOps(fl) == IF fl = "Other" THEN <<"println">> ELSE <<>>
\* What then_signal_fence_and_flush hands back: the fence future, or an error
\* with the whole chain of futures dropped.
FlushResult(fl, n) == IF fl = "Ok" THEN {FenceSignalFuture(n)} ELSE {}

\* Variant: the rebuilt frame targets go to a binding local to the `if` block,
\* the loop's own are left as they were.
FramebuffersShadowed(built, old) == old
\* framebuffers = window_size_dependent_setup(&new_images, ..) (main.rs line
\* 122): the loop's frame targets after the assignment.
AssignFramebuffers(built, old) == built

\* Variant: the flag is cleared before the recreation is tried, so that the
\* return on unsupported dimensions leaves it cleared.
FlagClearedBeforeRecreate(flag) == FALSE
\* Err(SwapchainCreationError::UnsupportedDimensions) => return (main.rs line
\* 117): the resize flag the return leaves, line 127 not reached.
UnsupportedReturnFlag(flag) == flag

\* Variant: no arm for UnsupportedDimensions, every chain-creation error panics.
RecreateNeverReturns(rc) == FALSE
\* The recreate arms (main.rs lines 115-119): which answers return from the
\* closure; every other error panics.
RecreateReturns(rc) == rc = "UnsupportedDimensions"

\* The acquire arms (main.rs lines 131-142): which answers return from the
\* closure (every other error panics), and the resize flag they leave.
AcquireReturns(acq) == acq = "OutOfDate"
AcquireFlag(acq, flag) == IF acq = "OutOfDate" THEN TRUE ELSE flag
SuboptimalFlag(suboptimal, flag) == IF suboptimal THEN TRUE ELSE flag

\* Event::RedrawEventsCleared (main.rs lines 109-220), the whole arm.  The
\* inputs are the answers of the platform: fence_ready to cleanup_finished,
\* rc and dimensions to recreate_with_dimensions and inner_size, setup to the
\* unwraps of window_size_dependent_setup, acq,
\* image_num and suboptimal to acquire_next_image, now to SystemTime::now,
\* rec to the recording calls, ex to then_execute, fl to
\* then_signal_fence_and_flush.
RedrawEventsCleared(fence_ready, rc, dimensions, setup, acq, image_num, suboptimal, now, rec, ex, fl) ==
    /\ Running
    /\ finished' = CleanupFinished(previous_frame_end, finished, fence_ready)
    /\ IF ~previous_frame_end.some THEN
           \* previous_frame_end.as_mut().unwrap() finds None
           Commit(swapchain, framebuffers, dynamic_state, recreate_swapchain,
                  previous_frame_end, frames, TRUE,
                  [NoTick EXCEPT !.event = "RedrawEventsCleared"], <<>>, {}, {},
                  <<elapsed, data>>)
       ELSE
       LET attempt == recreate_swapchain
           t0 == [NoTick EXCEPT !.event = "RedrawEventsCleared",
                                !.recreate = IF attempt THEN rc ELSE "-"]
           o0 == IF attempt THEN CleanupOps \o RecreateOps ELSE CleanupOps
       IN
       IF attempt /\ rc # "Ok" /\ RecreateReturns(rc) THEN
           \* Err(SwapchainCreationError::UnsupportedDimensions) => return
           Commit(swapchain, framebuffers, dynamic_state,
                  UnsupportedReturnFlag(recreate_swapchain),
                  previous_frame_end, frames, FALSE, t0, o0, {}, {}, <<elapsed, data>>)
       ELSE IF attempt /\ rc # "Ok" THEN
           \* Err(e) => panic!
           Commit(swapchain, framebuffers, dynamic_state, recreate_swapchain,
                  previous_frame_end, frames, TRUE, t0, o0, {}, {}, <<elapsed, data>>)
       ELSE
       LET new_swapchain == RecreateWithDimensions(swapchain, dimensions)
           new_images == Images(new_swapchain)
           sc1 == IF attempt THEN new_swapchain ELSE swapchain
           fb1 == IF attempt
                  THEN AssignFramebuffers(WindowSizeDependentSetup(new_images),
                                          framebuffers)
                  ELSE framebuffers
           ds1 == IF attempt THEN [viewports |-> <<Viewport(new_images)>>]
                  ELSE dynamic_state
           flag1 == IF attempt THEN FALSE ELSE recreate_swapchain
           ts == [t0 EXCEPT !.replaced = IF attempt THEN swapchain ELSE NoChain,
                            !.setup = IF attempt THEN setup ELSE "-"]
           t1 == [ts EXCEPT !.acquire = acq]
           o1 == (IF attempt THEN o0 \o SetupOps ELSE o0) \o AcquireOps
       IN
       /\ attempt => sc1.gen <= MaxGen
       /\ IF attempt /\ setup # "Ok" THEN
              \* an unwrap() of window_size_dependent_setup fails: the chain
              \* and the viewport are the new ones, the frame targets are not
              Commit(sc1, framebuffers, ds1, recreate_swapchain,
                     previous_frame_end, frames, TRUE,
                     ts, o0 \o SetupOps, {}, {}, <<elapsed, data>>)
          ELSE IF acq # "Ok" /\ AcquireReturns(acq) THEN
              Commit(sc1, fb1, ds1, AcquireFlag(acq, flag1),
                     previous_frame_end, frames, FALSE,
                     t1, o1, {}, {}, <<elapsed, data>>)
          ELSE IF acq # "Ok" THEN
              Commit(sc1, fb1, ds1, flag1, previous_frame_end, frames, TRUE,
                     t1, o1, {}, {}, <<elapsed, data>>)
          ELSE
          LET flag2 == SuboptimalFlag(suboptimal, flag1)
              \* framebuffers[image_num] panics when the index is out of bounds
              in_bounds == image_num + 1 \in DOMAIN fb1
              recorded == IF in_bounds THEN rec ELSE "Err"
              t2 == [t1 EXCEPT !.image_num = image_num,
                               !.suboptimal = suboptimal,
                               !.target = IF in_bounds THEN fb1[image_num + 1]
                                          ELSE NoTarget,
                               !.record = recorded]
              o2 == o1 \o RecordOps
              geo == <<now, TickTriangle[now]>>
          IN
          /\ image_num \in 0..(sc1.num_images - 1)
          /\ IF recorded # "Ok" THEN
                 \* an unwrap() or the indexing of lines 178-196 fails
                 Commit(sc1, fb1, ds1, flag2, previous_frame_end, frames,
                        TRUE, t2, o2, {}, {}, geo)
             ELSE
             LET prev == Unwrap(previous_frame_end)
                 w == JoinThenExecute(prev, AcquireFuture)
                 t3 == [t2 EXCEPT !.execute = ex]
                 o3 == o2 \o SubmitOps
             IN
             IF ex # "Ok" THEN
                 \* then_execute(..).unwrap() fails after the take()
                 Commit(sc1, fb1, ds1, flag2, Take(previous_frame_end),
                        frames, TRUE, t3, o3, {}, {}, geo)
             ELSE
             /\ fl = "Ok" => frames < MaxFrames
             /\ Commit(sc1, fb1, ds1, FlushFlag(fl, flag2),
                       FlushMarker(fl, frames + 1),
                       IF fl = "Ok" THEN frames + 1 ELSE frames,
                       FlushPanics(fl),
                       [t3 EXCEPT !.flush = fl],
                       o3 \o PresentOps \o FlushOps \o FlushArmOps(fl), w,
                       Markers(Take(previous_frame_end))
                           \cup FlushResult(fl, frames + 1),
                       geo)

\* What the platform can answer: the fence is looked at only when the marker
\* is a fence not yet found signaled, and inner_size() is read only when the
\* resize flag is set.
FenceAnswers ==
    IF Uncompleted(previous_frame_end, finished) THEN BOOLEAN ELSE {FALSE}
InnerSizes ==
    IF recreate_swapchain THEN WindowSizes ELSE {swapchain.dimensions}

\* The paths through the arm, one per way it ends; each draws the platform
\* answers the path reads.
RedrawUnsupportedDimensions ==
    /\ recreate_swapchain
    /\ \E fence_ready \in FenceAnswers, dimensions \in InnerSizes :
        RedrawEventsCleared(fence_ready, "UnsupportedDimensions", dimensions, "Ok",
                            "Ok", 0, FALSE, 0, "Ok", "Ok", "Ok")
RedrawRecreatePanic ==
    /\ recreate_swapchain
    /\ \E fence_ready \in FenceAnswers, dimensions \in InnerSizes :
        RedrawEventsCleared(fence_ready, "Other", dimensions, "Ok",
                            "Ok", 0, FALSE, 0, "Ok", "Ok", "Ok")
RedrawSetupPanic ==
    /\ recreate_swapchain
    /\ \E fence_ready \in FenceAnswers, dimensions \in InnerSizes :
        RedrawEventsCleared(fence_ready, "Ok", dimensions, "Err",
                            "Ok", 0, FALSE, 0, "Ok", "Ok", "Ok")
RedrawAcquireOutOfDate ==
    /\ Running
    /\ \E fence_ready \in FenceAnswers, dimensions \in InnerSizes :
        RedrawEventsCleared(fence_ready, "Ok", dimensions, "Ok",
                            "OutOfDate", 0, FALSE, 0, "Ok", "Ok", "Ok")
RedrawAcquirePanic ==
    /\ Running
    /\ \E fence_ready \in FenceAnswers, dimensions \in InnerSizes :
        RedrawEventsCleared(fence_ready, "Ok", dimensions, "Ok",
                            "Other", 0, FALSE, 0, "Ok", "Ok", "Ok")
RedrawRecordPanic ==
    /\ Running
    /\ \E fence_ready \in FenceAnswers, dimensions \in InnerSizes,
       image_num \in 0..(MaxImages - 1), suboptimal \in BOOLEAN,
       now \in TickTimes :
        RedrawEventsCleared(fence_ready, "Ok", dimensions, "Ok",
                            "Ok", image_num, suboptimal, now,
                            "Err", "Ok", "Ok")
RedrawExecutePanic ==
    /\ Running
    /\ \E fence_ready \in FenceAnswers, dimensions \in InnerSizes,
       image_num \in 0..(MaxImages - 1), suboptimal \in BOOLEAN,
       now \in TickTimes :
        RedrawEventsCleared(fence_ready, "Ok", dimensions, "Ok",
                            "Ok", image_num, suboptimal, now,
                            "Ok", "Err", "Ok")
RedrawFlushOk ==
    /\ Running
    /\ \E fence_ready \in FenceAnswers, dimensions \in InnerSizes,
       image_num \in 0..(MaxImages - 1), suboptimal \in BOOLEAN,
       now \in TickTimes :
        RedrawEventsCleared(fence_ready, "Ok", dimensions, "Ok",
                            "Ok", image_num, suboptimal, now,
                            "Ok", "Ok", "Ok")
RedrawFlushOutOfDate ==
    /\ Running
    /\ \E fence_ready \in FenceAnswers, dimensions \in InnerSizes,
       image_num \in 0..(MaxImages - 1), suboptimal \in BOOLEAN,
       now \in TickTimes :
        RedrawEventsCleared(fence_ready, "Ok", dimensions, "Ok",
                            "Ok", image_num, suboptimal, now,
                            "Ok", "Ok", "OutOfDate")
RedrawFlushError ==
    /\ Running
    /\ \E fence_ready \in FenceAnswers, dimensions \in InnerSizes,
       image_num \in 0..(MaxImages - 1), suboptimal \in BOOLEAN,
       now \in TickTimes :
        RedrawEventsCleared(fence_ready, "Ok", dimensions, "Ok",
                            "Ok", image_num, suboptimal, now,
                            "Ok", "Ok", "Other")

Next ==
    \/ CloseRequested
    \/ Resized
    \/ OtherEvent
    \/ RedrawUnsupportedDimensions
    \/ RedrawRecreatePanic
    \/ RedrawSetupPanic
    \/ RedrawAcquireOutOfDate
    \/ RedrawAcquirePanic
    \/ RedrawRecordPanic
    \/ RedrawExecutePanic
    \/ RedrawFlushOk
    \/ RedrawFlushOutOfDate
    \/ RedrawFlushError

Spec == Init /\ [][Next]_vars

\* The loop under the scheduling of ControlFlow::Poll, which keeps delivering
\* RedrawEventsCleared, and a platform that does not refuse the window
\* dimensions for ever: a redraw tick whose recreation answers Ok, if it stays
\* possible, happens.
RedrawAccepted ==
    /\ recreate_swapchain
    /\ \/ RedrawSetupPanic
       \/ RedrawAcquireOutOfDate
       \/ RedrawAcquirePanic
       \/ RedrawRecordPanic
       \/ RedrawExecutePanic
       \/ RedrawFlushOk
       \/ RedrawFlushOutOfDate
       \/ RedrawFlushError
LiveSpec == Init /\ [][Next]_vars /\ WF_vars(RedrawAccepted)

\* The geometry alone: lines 147-175 applied to every clock reading.
ComputeGeometry ==
    /\ \E now \in Times :
        /\ elapsed' = now
        /\ data' = Triangle(now)
    /\ UNCHANGED loop_vars
GeomNext == ComputeGeometry
GeomSpec == Init /\ [][GeomNext]_vars

\* ------------------------------------------------------------------ claims
Has(o, name) == \E i \in 1..Len(o) : o[i] = name
HasAll(o, names) == \A i \in 1..Len(names) : Has(o, names[i])
HasNone(o, names) == \A i \in 1..Len(names) : ~Has(o, names[i])
\* Position of the first occurrence of a call in o (0 when absent).
Pos(o, name) ==
    IF Has(o, name) THEN CHOOSE i \in 1..Len(o) :
                             o[i] = name /\ \A j \in 1..(i - 1) : o[j] # name
    ELSE 0
UncompletedCount(S) ==
    Cardinality({m \in S : m.kind = "fence" /\ m.frame \notin finished})
IsRedraw(t) == t.event = "RedrawEventsCleared"

\* C1: a redraw tick whose chain recreation answers "unsupported dimensions"
\* makes no acquire, record, submit, present or flush call, leaves the chain,
\* the frame targets, the viewport and the in-flight marker as they were, does
\* not terminate the loop and leaves the resize flag set; and every redraw tick
\* that starts with the flag set attempts the recreation, before anything else
\* but the cleanup.
C1_UnsupportedSkip ==
    [][ /\ (IsRedraw(tick') /\ tick'.recreate = "UnsupportedDimensions") =>
            /\ HasNone(ops', AcquireOps \o RecordOps \o SubmitOps
                             \o PresentOps \o FlushOps \o SetupOps)
            /\ swapchain' = swapchain
            /\ framebuffers' = framebuffers
            /\ dynamic_state' = dynamic_state
            /\ previous_frame_end' = previous_frame_end
            /\ recreate_swapchain /\ recreate_swapchain'
            /\ control_flow' = "Poll" /\ ~panicked'
        /\ (recreate_swapchain /\ IsRedraw(tick')) =>
            /\ Pos(ops', "recreate_with_dimensions") = 2
            /\ tick'.recreate \in RecreateResults
      ]_vars
C1_Witness ==
    /\ IsRedraw(tick) /\ tick.recreate = "UnsupportedDimensions"
    /\ ops = CleanupOps \o RecreateOps
    /\ recreate_swapchain /\ Running
    /\ previous_frame_end.kind = "fence"

\* C2: the loop never owns more than one uncompleted in-flight marker: neither
\* in the slot between two events, nor at the point of a tick where the flush
\* has handed back the new marker.
C2_OneMarker ==
    /\ UncompletedCount(Markers(previous_frame_end)) <= 1
    /\ UncompletedCount(held) <= 1
    /\ Cardinality(held) <= 1
C2_Witness ==
    /\ tick.flush = "Ok" /\ frames >= 2
    /\ UncompletedCount(held) = 1
    /\ finished = {}

\* C3: in every tick that reaches then_execute, the command buffer is
\* sequenced after both the marker the slot held when the tick began and the
\* acquisition future of the tick, whatever happened in the ticks before.
C3_JoinBeforeExecute ==
    [][ Has(ops', "then_execute") =>
            /\ previous_frame_end.some
            /\ (tick'.execute = "Ok" =>
                   waits' = {Unwrap(previous_frame_end), AcquireFuture})
            /\ Pos(ops', "take") < Pos(ops', "join")
            /\ Pos(ops', "join") < Pos(ops', "then_execute")
            /\ Pos(ops', "acquire_next_image") < Pos(ops', "join")
      ]_vars
\* a frame submitted after a frame whose flush failed
C3_Witness ==
    /\ tick.flush = "Ok" /\ frames = 2
    /\ waits = {SyncNow, AcquireFuture}

C5_AcquireOutOfDate ==
    [][ (IsRedraw(tick') /\ tick'.acquire = "OutOfDate") =>
            /\ recreate_swapchain'
            /\ HasNone(ops', RecordOps \o SubmitOps \o PresentOps \o FlushOps)
            /\ ops'[Len(ops')] = "acquire_next_image"
            /\ previous_frame_end' = previous_frame_end
            /\ control_flow' = "Poll" /\ ~panicked'
      ]_vars
C5_Witness ==
    /\ IsRedraw(tick) /\ tick.acquire = "OutOfDate"
    /\ tick.recreate = "-"
    /\ recreate_swapchain /\ Running
    /\ previous_frame_end.kind = "fence"

\* C6: a tick whose acquire succeeds with the sub-optimal mark still makes the
\* record, submit, present and flush calls for the acquired image (unless one
\* of them aborts the process), and ends with the resize flag set; and a
\* redraw tick that starts with the flag set acquires only after it has
\* recreated the chain and rebuilt the frame targets.
C6_Suboptimal ==
    [][ /\ (IsRedraw(tick') /\ tick'.acquire = "Ok" /\ tick'.suboptimal) =>
            /\ recreate_swapchain'
            /\ HasAll(ops', RecordOps)
            /\ ~panicked' =>
                /\ HasAll(ops', SubmitOps \o PresentOps \o FlushOps)
                /\ tick'.flush \in FlushResults
                /\ Pos(ops', "acquire_next_image") < Pos(ops', "draw")
                /\ Pos(ops', "draw") < Pos(ops', "then_execute")
                /\ Pos(ops', "then_execute") < Pos(ops', "then_swapchain_present")
        /\ (recreate_swapchain /\ IsRedraw(tick')
                /\ Has(ops', "acquire_next_image")) =>
            /\ tick'.recreate = "Ok"
            /\ swapchain'.gen = swapchain.gen + 1
            /\ framebuffers' = WindowSizeDependentSetup(Images(swapchain'))
            /\ Pos(ops', "recreate_with_dimensions")
                   < Pos(ops', "window_size_dependent_setup")
            /\ Pos(ops', "window_size_dependent_setup")
                   < Pos(ops', "acquire_next_image")
      ]_vars
C6_Witness ==
    /\ IsRedraw(tick) /\ tick.acquire = "Ok" /\ tick.suboptimal
    /\ tick.flush = "Ok" /\ tick.recreate = "Ok"
    /\ recreate_swapchain /\ Running

\* C7: when the fence-and-flush answers out-of-date the loop goes on: the
\* resize flag is set, the in-flight marker is a fresh sync::now, nothing is
\* printed and the process is not aborted.
C7_FlushOutOfDate ==
    tick.flush = "OutOfDate" =>
        /\ recreate_swapchain
        /\ previous_frame_end = Some(SyncNow)
        /\ UncompletedCount(Markers(previous_frame_end)) = 0
        /\ Running
        /\ ~Has(ops, "println")
C7_Witness ==
    /\ tick.flush = "OutOfDate" /\ ~tick.suboptimal
    /\ waits = {FenceSignalFuture(1), AcquireFuture}
    /\ recreate_swapchain /\ Running

\* C8: when the fence-and-flush answers another error the loop goes on: the
\* error is printed, the in-flight marker is a fresh sync::now, and the arm
\* touches neither the resize flag (it is what the acquire left) nor the chain
\* (it is the one the tick acquired from); when it answers Ok the future it
\* returned, a new one, is the in-flight marker.
C8_FlushErrorOrOk ==
    [][ /\ tick'.flush = "Other" =>
            /\ ops'[Len(ops')] = "println"
            /\ previous_frame_end' = Some(SyncNow)
            /\ control_flow' = "Poll" /\ ~panicked'
            /\ recreate_swapchain' = tick'.suboptimal
            /\ tick'.recreate = "-" =>
                   (swapchain' = swapchain /\ framebuffers' = framebuffers)
            /\ tick'.recreate # "-" => swapchain'.gen = swapchain.gen + 1
        /\ tick'.flush = "Ok" =>
            /\ previous_frame_end' = Some(FenceSignalFuture(frames'))
            /\ frames' = frames + 1
            /\ previous_frame_end' # previous_frame_end
            /\ held' = {Unwrap(previous_frame_end')}
            /\ control_flow' = "Poll" /\ ~panicked'
      ]_vars
C8_Witness ==
    /\ tick.flush = "Other" /\ ~tick.suboptimal /\ tick.recreate = "-"
    /\ waits = {FenceSignalFuture(1), AcquireFuture}
    /\ previous_frame_end = Some(SyncNow)
    /\ ~recreate_swapchain /\ Running

\* C9: a close-requested event changes the exit request and nothing else, a
\* resized event sets the resize flag and changes nothing else, and no event
\* but a redraw opportunity touches the chain, the frame targets, the
\* viewport or the in-flight marker, or makes any call.
C9_OnlyRedrawAdvances ==
    [][ /\ tick'.event = "CloseRequested" =>
            /\ control_flow' = "Exit"
            /\ UNCHANGED <<panicked, swapchain, framebuffers, dynamic_state,
                           recreate_swapchain, previous_frame_end, finished,
                           frames>>
        /\ tick'.event = "Resized" =>
            /\ recreate_swapchain'
            /\ UNCHANGED <<control_flow, panicked, swapchain, framebuffers,
                           dynamic_state, previous_frame_end, finished,
                           frames>>
        /\ ~IsRedraw(tick') =>
            /\ ops' = <<>>
            /\ UNCHANGED <<swapchain, framebuffers, dynamic_state,
                           previous_frame_end, finished, frames>>
      ]_vars
C9_Witness ==
    /\ tick.event = "Resized" /\ recreate_swapchain
    /\ previous_frame_end.kind = "fence" /\ swapchain.gen >= 1
    /\ Running

\* C10: the triangle computed at a clock reading t is the triangle computed at
\* t + 5 seconds, all three vertices; it depends on t only through t modulo 5
\* seconds; and over those 5 seconds the first vertex makes one full turn at a
\* constant rate: its angle is the fraction (t mod 5)/5 of a full turn, to the
\* nearest representable angle.
FiveSeconds == 5 * TimeRes
FullTurn == 2 * PI
Abs(x) == IF x < 0 THEN -x ELSE x
C10_Periodic ==
    data # <<>> =>
        /\ Len(data) = 3
        /\ data = Triangle(elapsed + FiveSeconds)
        /\ data = Triangle(elapsed % FiveSeconds)
        /\ data[1] = Vertex(AngleAt(elapsed))
        /\ 2 * Abs(AngleAt(elapsed) * FiveSeconds
                   - FullTurn * (elapsed % FiveSeconds)) <= FiveSeconds
C10_Witness ==
    /\ data # <<>>
    /\ elapsed > FiveSeconds /\ elapsed % FiveSeconds # 0
    /\ data = Triangle(elapsed - FiveSeconds)
    /\ data # Triangle(0)

\* The counter-clockwise advance from angle a1 to angle a2, modulo a full turn.
Advance(a1, a2) == (a2 - a1) % FullTurn
\* The clock readings less than 5 seconds before t.
Earlier(t) == {t1 \in Times : t1 < t /\ t - t1 < FiveSeconds}

Sq16(x) == <<x[1] * x[1] + 3 * x[2] * x[2], 2 * x[1] * x[2]>>
Sqrt3Times(x) == <<3 * x[2], x[1]>>
Plus(x, y) == <<x[1] + y[1], x[2] + y[2]>>
Minus(x, y) == <<x[1] - y[1], x[2] - y[2]>>
Twice(x) == <<2 * x[1], 2 * x[2]>>
\* v lies at distance 1/2 from the origin: x*x + y*y = 1/4.
OnCircle(v) ==
    Plus(Sq16(v.position[1]), Sq16(v.position[2])) = <<4, 0>>
\* w is v turned counter-clockwise by 2*pi/3 about the origin:
\* 2*w.x = -v.x - sqrt(3)*v.y and 2*w.y = sqrt(3)*v.x - v.y.
TurnedByThird(v, w) ==
    /\ Twice(w.position[1])
           = Minus(Minus(<<0, 0>>, v.position[1]), Sqrt3Times(v.position[2]))
    /\ Twice(w.position[2])
           = Minus(Sqrt3Times(v.position[1]), v.position[2])

\* C12: at every clock reading the three vertices lie on the circle of radius
\* 0.5 about the origin, the first at the angle of the reading, the second a
\* third of a turn ahead of it and the third a third of a turn behind it, so
\* that each is 2*pi/3 from its neighbours.
C12_Equilateral ==
    data # <<>> =>
        /\ Len(data) = 3
        /\ \A i \in 1..3 : OnCircle(data[i])
        /\ data[1] = Vertex(AngleAt(elapsed))
        /\ TurnedByThird(data[1], data[2])
        /\ TurnedByThird(data[3], data[1])
        /\ TurnedByThird(data[2], data[3])
C12_Witness ==
    /\ data # <<>>
    /\ elapsed % FiveSeconds # 0
    /\ data[1].position[1][2] # 0
    /\ data[2].position[2] = <<-2, 0>>

\* A tick that replaced the chain.
Recreated(t) == IsRedraw(t) /\ t.recreate = "Ok" /\ t.setup = "Ok"

C14_TargetsFollowChain ==
    [][ /\ (swapchain' # swapchain /\ ~panicked') =>
            /\ Recreated(tick')
            /\ tick'.replaced = swapchain
            /\ framebuffers' = WindowSizeDependentSetup(Images(swapchain'))
            /\ \A i \in 1..Len(framebuffers') :
                   framebuffers'[i].view.gen = swapchain'.gen
            /\ Pos(ops', "recreate_with_dimensions")
                   < Pos(ops', "window_size_dependent_setup")
            /\ Has(ops', "acquire_next_image") =>
                   Pos(ops', "window_size_dependent_setup")
                       < Pos(ops', "acquire_next_image")
        /\ (IsRedraw(tick') /\ tick'.record = "Ok") =>
            /\ tick'.acquire = "Ok"
            /\ tick'.target.view = Images(swapchain')[tick'.image_num + 1]
            /\ tick'.target.view.gen = swapchain'.gen
            /\ tick'.target.view.index = tick'.image_num
      ]_vars
C14_Witness ==
    /\ Recreated(tick) /\ tick.record = "Ok" /\ Running
    /\ tick.image_num = 1
    /\ tick.target.view.gen = 2 /\ swapchain.gen = 2
    /\ tick.replaced.dimensions # swapchain.dimensions

\* C19: in every tick that reaches the recording, whatever the number of
\* recreations before it, there are as many frame targets as the chain the
\* image was acquired from has images, the acquired index is within their
\* bounds, and the render pass is begun on the frame target at that index.
C19_IndexInBounds ==
    [][ (IsRedraw(tick') /\ Has(ops', "begin_render_pass")) =>
            /\ tick'.acquire = "Ok"
            /\ Len(framebuffers') = swapchain'.num_images
            /\ Len(framebuffers') = Len(Images(swapchain'))
            /\ tick'.image_num \in 0..(Len(framebuffers') - 1)
            /\ tick'.target # NoTarget
            /\ tick'.target = framebuffers'[tick'.image_num + 1]
      ]_vars
C19_Witness ==
    /\ IsRedraw(tick) /\ tick.record = "Ok" /\ tick.flush = "Ok"
    /\ tick.recreate = "-"
    /\ swapchain.gen = 2
    /\ tick.image_num = swapchain.num_images - 1
    /\ tick.target = framebuffers[tick.image_num + 1]

\* The calls of a whole tick in the order of the steps Cleanup, chain rebuild
\* (when rebuild), Acquire, Record, Submit, Present (with the flush that ends
\* it).
TickOrder(rebuild) ==
    <<"cleanup_finished">>
    \o (IF rebuild THEN <<"recreate_with_dimensions", "window_size_dependent_setup">>
        ELSE <<>>)
    \o <<"acquire_next_image",
         "chunk", "begin_render_pass", "draw", "end_render_pass", "build",
         "take", "join", "then_execute",
         "then_swapchain_present", "then_signal_fence_and_flush">>
IsPrefix(p, q) == Len(p) <= Len(q) /\ SubSeq(q, 1, Len(p)) = p
\* The calls o were made in the order of the steps, each at most once, up to
\* the step where the tick ended.
InStepOrder(o) ==
    \E rebuild \in BOOLEAN :
        \/ IsPrefix(o, TickOrder(rebuild))
        \/ o = TickOrder(rebuild) \o <<"println">>
\* A present is of the image acquired, and submitted before, in the same tick;
\* and a chain rebuild comes before the acquire of its tick.
PresentAfterSubmit(t, o) ==
    /\ Has(o, "then_swapchain_present") =>
        /\ t.acquire = "Ok" /\ t.execute = "Ok"
        /\ t.target.view.index = t.image_num
        /\ Pos(o, "acquire_next_image") > 0
        /\ Pos(o, "acquire_next_image") < Pos(o, "then_execute")
        /\ Pos(o, "then_execute") < Pos(o, "then_swapchain_present")
    /\ (Has(o, "recreate_with_dimensions") /\ Has(o, "acquire_next_image")) =>
        Pos(o, "recreate_with_dimensions") < Pos(o, "acquire_next_image")
    /\ (Has(o, "window_size_dependent_setup") /\ Has(o, "acquire_next_image")) =>
        Pos(o, "window_size_dependent_setup") < Pos(o, "acquire_next_image")

C17_ClearedOnlyByRecreation ==
    [][ /\ (recreate_swapchain /\ ~recreate_swapchain') =>
            /\ Recreated(tick')
            /\ tick'.replaced = swapchain /\ swapchain'.gen = swapchain.gen + 1
            /\ framebuffers' = WindowSizeDependentSetup(Images(swapchain'))
            /\ Pos(ops', "recreate_with_dimensions") = 2
            /\ Pos(ops', "window_size_dependent_setup") = 3
            /\ tick'.acquire # "OutOfDate" /\ ~tick'.suboptimal
            /\ tick'.flush # "OutOfDate"
        /\ (recreate_swapchain /\ ~Recreated(tick')) => recreate_swapchain'
        /\ (recreate_swapchain
                /\ \/ tick'.event \in {"CloseRequested", "Resized", "Other"}
                   \/ tick'.recreate = "UnsupportedDimensions"
                   \/ tick'.acquire = "OutOfDate"
                   \/ tick'.flush = "OutOfDate"
                   \/ (tick'.recreate = "-" /\ tick'.flush \in FlushResults)) =>
            recreate_swapchain'
      ]_vars
C17_Witness ==
    /\ Recreated(tick) /\ tick.flush = "Other" /\ Running
    /\ ~recreate_swapchain
    /\ swapchain.gen = 2 /\ frames = 1

\* C18: every redraw tick starts with an in-flight marker in the slot, so that
\* the unwrap before cleanup_finished and the one after take() find it; and
\* every redraw tick that does not abort the process leaves a marker in the
\* slot.
C18_MarkerPresent ==
    [][ IsRedraw(tick') =>
            /\ previous_frame_end.some
            /\ ops'[1] = "cleanup_finished"
            /\ tick'.execute = "Ok" =>
                   (Has(ops', "take") /\ Unwrap(previous_frame_end) \in waits')
            /\ ~panicked' =>
                /\ previous_frame_end'.some
                /\ previous_frame_end' \in
                       {Some(SyncNow)} \cup {Some(FenceSignalFuture(n)) : n \in 1..MaxFrames}
      ]_vars
\* a tick returning on unsupported dimensions, after a frame and then a tick
\* whose flush failed
C18_Witness ==
    /\ IsRedraw(tick) /\ tick.recreate = "UnsupportedDimensions" /\ Running
    /\ previous_frame_end = Some(SyncNow)
    /\ frames = 1

\* C16: a request for recreation is eventually honoured.  Whenever the resize
\* flag is set on a chain of generation g, then either the loop stops (exit or
\* abort) or a later redraw tick replaces that chain by its recreation and
\* rebuilds the frame targets from the new images.  Generations are counted up
\* to MaxGen.
C16_EventuallyRecreated ==
    \A g \in 0..(MaxGen - 1) :
        (recreate_swapchain /\ swapchain.gen = g /\ Running)
            ~> \/ ~Running
               \/ /\ Recreated(tick)
                  /\ swapchain.gen = g + 1
                  /\ tick.replaced.gen = g
                  /\ framebuffers = WindowSizeDependentSetup(Images(swapchain))
\* a request honoured by a tick that then drew a frame
C16_Witness ==
    /\ Recreated(tick) /\ Running
    /\ tick.replaced.gen = 0 /\ swapchain.gen = 1
    /\ framebuffers = WindowSizeDependentSetup(Images(swapchain))
    /\ ~recreate_swapchain
    /\ tick.flush = "Ok" /\ frames = 2
====
